---------------------------- MODULE Spec2Model ----------------------------
(***************************************************************************)
(* Signed-authorization protocol of the deep-link transfer system:         *)
(*   - SignatureService.verifySignature and its nonce store                *)
(*     (signature-service.js, held in src/unnamed/part_001),               *)
(*   - the verify-signature and batch-verify routes that call it           *)
(*     (src/backend/routes/verification.js),                               *)
(*   - NonceManager.validateAndConsume                                     *)
(*     (src/backend/services/nonce-manager.js),                            *)
(*   - the execute flow of the frontend (src/frontend/js/app.js).          *)
(*                                                                         *)
(* Time is counted in milliseconds from an arbitrary origin (only          *)
(* differences of Date.now() values matter to the code).                   *)
(* An Ed25519 signature is modelled by the key that produced it: the       *)
(* signature of a request verifies under publicKey iff signer = publicKey. *)
(***************************************************************************)
EXTENDS Integers, Sequences, FiniteSets, Bags, TLC

VARIABLES
    now,          \* Date.now()
    redis,        \* SignatureService.redis is non-null (Redis is in use)
    redisStore,   \* Redis keys nonce:<n>: instant at which the key expires
    nonceCache,   \* SignatureService.nonceCache: nonce -> Date.now() at set
    pending,      \* bag of the verifySignature calls suspended at the nonce lookup
    last,         \* the verdict the step just taken returned, if it returned one
    verified,     \* requests for which a call has returned valid (history)
    currentLinkData, \* SolanaDeepLinkApp.currentLinkData
    btnDisabled,  \* executeTransferBtn.disabled
    walletConnected, \* WalletConnector: a wallet is connected
    verifying,    \* per link: verifyLink calls awaiting the backend's response
    verifiedOk,   \* links whose verification verifyLink saw succeed (history)
    handed,       \* links handed to transactionExecutor (history)
    nmRedis,      \* NonceManager.redis is non-null
    nmRedisStore, \* NonceManager's Redis keys: instant at which the key expires
    nmLocalCache, \* NonceManager.localCache: nonce -> expiresAt
    nmCalls,      \* validateAndConsume calls suspended at `await this.exists`
    nmLast,       \* the result the step just taken returned, if it returned one
    queried,      \* the response of GET /nonce/:nonce the step just taken gave
    stats,        \* the response of GET /stats the step just taken gave
    signedPair,   \* what the signing operation just called returned
    link,         \* what SecurityUtils.createDeepLink made of signedPair
    parsed,       \* what SecurityUtils.parseDeepLink returned, and for which URL
    encoded,      \* a record and the bytes the two createMessageToSign give it
    batch,        \* the batch-verify request being served: items, results, response
    locks,        \* CacheService: the keys lock:<resource> in Redis
    holds         \* per caller and resource: the lockValue acquireLock returned

svcVars == <<now, redis, redisStore, nonceCache, pending, last, verified>>
appVars == <<currentLinkData, btnDisabled, walletConnected, verifying, verifiedOk, handed>>
nmVars == <<nmRedis, nmRedisStore, nmLocalCache, nmCalls, nmLast>>
statusVars == <<queried, stats>>
signVars == <<signedPair, link, parsed, encoded>>
opsVars == <<batch, locks, holds>>
vars == <<svcVars, appVars, nmVars, statusVars, signVars, opsVars>>

-----------------------------------------------------------------------------
(* Bounds of the model *)

\* verifySignature calls that may be suspended at the same time
MaxInFlight == 2

\* validateAndConsume calls that may be suspended at the same time
MaxNmCalls == 2

\* verifyLink calls of one link that may await the backend at the same time
MaxVerifying == 1

\* items of one batch-verify request
MaxBatch == 2

\* lockValues that acquireLock draws
MaxLockValues == 3

-----------------------------------------------------------------------------
(* Constants of the program *)

MAX_AMOUNT_SOL == 100

SUPPORTED_DOMAINS == {"localhost:3000"}

maxClockSkew == 5 * 60 * 1000

maxValidityWindow == 24 * 60 * 60 * 1000

\* redis.setEx(key, 24 * 60 * 60, 'used'): seconds, here in milliseconds
REDIS_NONCE_TTL_MS == 24 * 60 * 60 * 1000

maxAge == 24 * 60 * 60 * 1000

\* HTTP statuses of the routes
BadRequest == 400

Success == 200

\* redis.get() -> null, Map.has() -> false: no entry for the nonce
NoEntry == -1


-----------------------------------------------------------------------------
(* Requests: signatureData, signature and publicKey as a caller sends them *)

\* The value of a numeric field as it arrives in the JSON body.
\*   "num":      a number, or a string that is a number, below 1e21;
\*   "text":     a value with no numeric prefix (null, "abc", {}, or the
\*               field is absent): parseInt and parseFloat return NaN;
\*   "exp":      a number of 1e21 or more, which String() writes in
\*               exponent notation ("1e+21"): n is its leading digit;
\*   "prefixed": a string that starts with the number n and goes on with
\*               other characters ("5abc").
Num(k) == [form |-> "num", n |-> k]

Text == [form |-> "text", n |-> 0]

Exp(lead) == [form |-> "exp", n |-> lead]

Prefixed(k) == [form |-> "prefixed", n |-> k]

\* A numeric field the record does not carry: String(undefined) has no
\* numeric prefix either
Undefined == [form |-> "undefined", n |-> 0]

\* An optional field the record does not carry (undefined)
Absent == "(absent)"

\* A record every check accepts while its time window is open: its
\* timestamp lies maxClockSkew ahead of the origin and its window has the
\* maximum length validateTimestamp allows.
BaseRequest ==
    [shape |-> "ok", nonce |-> "n1",
     timestamp |-> Num(maxClockSkew),
     expiry |-> Num(maxClockSkew + maxValidityWindow),
     domain |-> "localhost:3000", version |-> "1.0",
     source |-> "A", destination |-> "B",
     amount |-> Num(1), token |-> "SOL", maxSlippage |-> Num(10),
     signer |-> "A", publicKey |-> "A"]

\* The instants at which the health check is called
HealthInstants == <<0, maxClockSkew + maxValidityWindow + 1>>

\* testSignatureService: the record the health check builds at time t and
\* hands to verifySignature with the signature 'invalid_signature', which
\* is no base58 text (signer "none"); the source, 32 times '1', decodes to
\* 32 bytes and is also the public key, the destination, 32 times '2',
\* decodes to fewer than 32
testData(t) ==
    [BaseRequest EXCEPT !.nonce = "test_nonce_" \o ToString(t),
                        !.timestamp = Num(t), !.expiry = Num(t + 60000),
                        !.domain = "localhost", !.destination = "Z",
                        !.amount = Num(1), !.token = "SOL",
                        !.maxSlippage = Num(10), !.signer = "none"]

\* maxSlippage is counted in thousandths (10 is 0.01); shape is "ok" or
\* names what the request lacks; signer is the key whose signature over
\* this very record the request carries.
NamedRequests ==
    << BaseRequest,
       [BaseRequest EXCEPT !.nonce = "n2"],
       [BaseRequest EXCEPT !.domain = "evil.example"],
       [BaseRequest EXCEPT !.version = "2.0"],
       [BaseRequest EXCEPT !.shape = "missing", !.domain = "evil.example"],
       [BaseRequest EXCEPT !.signer = "B", !.publicKey = "B"],
       [BaseRequest EXCEPT !.signer = "B", !.amount = Num(101)],
       [BaseRequest EXCEPT !.nonce = "n!", !.domain = "evil.example"],
       [BaseRequest EXCEPT !.version = "2.0", !.amount = Num(101)] >>

RequestIds == 1..Len(NamedRequests)

\* BaseRequest with other values in one or two of its fields. The instants
\* the values of timestamp and expiry are chosen for are those of
\* RecordInstants below.
BaseExpiry == maxClockSkew + maxValidityWindow

TimestampValues ==
    << Num(maxClockSkew), Num(maxClockSkew - 1),
       Num(BaseExpiry + maxClockSkew), Num(BaseExpiry + maxClockSkew + 1),
       Text, Exp(1) >>

ExpiryValues == << Num(BaseExpiry), Num(BaseExpiry - 1), Num(0), Text >>

DomainValues == << "localhost:3000", "evil.example", "" >>

SignerValues == << "A", "B" >>

TokenValues == << "SOL", Absent, "USDC", "DOGE" >>

AmountValues == << Num(1), Num(100), Num(101), Num(0), Text, Prefixed(5) >>

SlippageValues == << Num(0), Num(100), Num(101), Text >>

VersionValues == << "2.0", "", Absent >>

DestinationValues == << "A", "Z" >>

ShapeValues ==
    << "no nonce", "no timestamp", "no expiry", "no domain", "no source",
       "no destination", "no amount" >>

NonceValues == << "n!", "short", "long", "", "n40" >>

\* Records that leave optional fields out
OmittedValues == << Undefined >>

\* Calls whose signatureData is null, or no object
MistypedValues == << "null" >>

Row(Op(_), xs) == [i \in 1..Len(xs) |-> Op(xs[i])]

Grid(Op(_, _), xs, ys) ==
    [i \in 1..(Len(xs) * Len(ys)) |->
        Op(xs[((i - 1) \div Len(ys)) + 1], ys[((i - 1) % Len(ys)) + 1])]

VariedRequests ==
    Grid(LAMBDA a, b : [BaseRequest EXCEPT !.timestamp = a, !.expiry = b],
         TimestampValues, ExpiryValues)
    \o Grid(LAMBDA a, b : [BaseRequest EXCEPT !.domain = a, !.signer = b],
            DomainValues, SignerValues)
    \o Grid(LAMBDA a, b : [BaseRequest EXCEPT !.token = a, !.amount = b],
            TokenValues, AmountValues)
    \o Row(LAMBDA a : [BaseRequest EXCEPT !.maxSlippage = a], SlippageValues)
    \o Row(LAMBDA a : [BaseRequest EXCEPT !.version = a], VersionValues)
    \o Row(LAMBDA a : [BaseRequest EXCEPT !.destination = a], DestinationValues)
    \o Row(LAMBDA a : [BaseRequest EXCEPT !.shape = a], ShapeValues)
    \o Row(LAMBDA a : [BaseRequest EXCEPT !.nonce = a], NonceValues)
    \o Grid(LAMBDA a, b : [BaseRequest EXCEPT !.maxSlippage = a, !.token = b],
            OmittedValues, TokenValues)
    \o Row(testData, HealthInstants)
    \o Row(LAMBDA a : [BaseRequest EXCEPT !.shape = a], MistypedValues)

\* Every request of the model: verdicts name a request by its index here
Requests == NamedRequests \o VariedRequests

RecordIds == 1..Len(Requests)

Nonces == {Requests[i].nonce : i \in RecordIds}

\* Addresses that bs58-decode to 32 bytes
ValidAddresses == {"A", "B"}

\* The instants at which the model looks at the clock: the origin, just
\* after the TTL of a key set at the origin ran out, and just after the
\* window of BaseRequest closed.
Instants ==
    {0, REDIS_NONCE_TTL_MS + 1, maxClockSkew + maxValidityWindow + 1}

\* The same without the instant between the end of the TTL and the end of
\* the window
CoreInstants == {0, maxClockSkew + maxValidityWindow + 1}

\* The last two instants of the window of BaseRequest
RecordInstants == {BaseExpiry - 1, BaseExpiry}

-----------------------------------------------------------------------------
(* SignatureService: the checks *)

Ok == ""

ErrExpired == "Signature has expired"
ErrFuture == "Signature timestamp is too far in the future"
ErrWindow == "Signature validity window is too long"
ErrMissing == "Missing required field"
ErrDataFormat == "Invalid signature data format"
ErrNonceFormat == "Invalid nonce format"
ErrReplay == "Nonce has already been used (replay attack detected)"
ErrDomainFormat == "Invalid domain format"
ErrDomain == "Unsupported domain"
ErrCrypto == "Cryptographic signature verification failed"
ErrAmount == "Amount exceeds maximum limit"
ErrAddress == "Invalid wallet address format"
ErrSelf == "Cannot transfer to same wallet"
ErrAmountInvalid == "Invalid transfer amount"
ErrSlippage == "Invalid slippage value (must be between 0 and 10%)"
ErrVersion == "Unsupported signature version"
ErrConsume == "Signature verification failed: Failed to consume nonce - cannot prevent replay attacks"
ErrRouteValidation == "Validation failed"
ErrRouteKey == "Public key does not match source address"

validateInputs(r) ==
    IF r.shape = "null" THEN ErrDataFormat
    ELSE IF r.shape # "ok" THEN ErrMissing ELSE Ok

\* A number of 1e21 or more: above every number the model compares it with
Huge == 10 * maxValidityWindow

\* The instant 0 of Date.now(): the origin of the model lies long after it
Epoch == 0 - Huge

\* parseInt(v): the leading integer of String(v), NaN when there is none.
\* Of a number written in exponent notation that is its leading digit: as
\* an instant, a few milliseconds after Epoch.
parseInt(v) ==
    [nan |-> v.form \in {"text", "undefined"},
     n |-> IF v.form = "exp" THEN Epoch + v.n ELSE v.n]

\* parseFloat(v): the longest numeric prefix of String(v), exponent
\* included, NaN when there is none.
parseFloat(v) ==
    [nan |-> v.form \in {"text", "undefined"}, n |-> IF v.form = "exp" THEN Huge ELSE v.n]

\* Two other time-window checks, for testing the properties that depend on
\* its bounds: one that rejects at the instant of expiry, one that puts no
\* bound on the window
validateTimestampExpiredAtExpiry(r, t) ==
    LET timestamp == parseInt(r.timestamp)
        expiry == parseInt(r.expiry)
    IN  IF ~timestamp.nan /\ timestamp.n > t + maxClockSkew THEN ErrFuture
        ELSE IF ~expiry.nan /\ t >= expiry.n THEN ErrExpired
        ELSE IF /\ ~timestamp.nan /\ ~expiry.nan
                /\ expiry.n - timestamp.n > maxValidityWindow THEN ErrWindow
        ELSE Ok

validateTimestampAnyWindow(r, t) ==
    LET timestamp == parseInt(r.timestamp)
        expiry == parseInt(r.expiry)
    IN  IF ~timestamp.nan /\ timestamp.n > t + maxClockSkew THEN ErrFuture
        ELSE IF ~expiry.nan /\ t > expiry.n THEN ErrExpired
        ELSE Ok

\* Every comparison with NaN is false, and NaN - x is NaN.
validateTimestamp(r, t) ==
    LET timestamp == parseInt(r.timestamp)
        expiry == parseInt(r.expiry)
    IN  IF ~timestamp.nan /\ timestamp.n > t + maxClockSkew THEN ErrFuture
        ELSE IF ~expiry.nan /\ t > expiry.n THEN ErrExpired
        ELSE IF /\ ~timestamp.nan /\ ~expiry.nan
                /\ expiry.n - timestamp.n > maxValidityWindow THEN ErrWindow
        ELSE Ok

\* The nonces of the model: "n1" and "n2" are 43 URL-safe characters (32
\* random bytes in base64url), "n!" is as long and holds a character
\* outside the alphabet, "short" is 5 URL-safe characters, "long" 65 and
\* "n40" 40 of them, "" is empty.
NonceLength(n) ==
    CASE n = "short" -> 5
      [] n = "n40" -> 40
      [] n = "" -> 0
      [] n = "long" -> 65
      [] n \in {testData(HealthInstants[i]).nonce : i \in 1..2} -> 24
      [] OTHER -> 43

\* !nonce || typeof nonce !== 'string', then /^[A-Za-z0-9_-]+$/
NonceFormatOk(n) == n \notin {"", "n!"}

\* A domain check that lets every domain through, for testing the
\* properties that depend on the allow-list
acceptAnyDomain(d) == Ok

validateDomain(d) ==
    IF d = "" THEN ErrDomainFormat
    ELSE IF d \notin SUPPORTED_DOMAINS THEN ErrDomain
    ELSE Ok

verifyCryptographicSignature(r) ==
    IF r.signer # r.publicKey THEN ErrCrypto ELSE Ok

\* signatureData.version && ...: an absent or empty version is falsy
Falsy(v) == v \in {Absent, ""}

performSecurityChecks(r) ==
    LET amount == parseFloat(r.amount)
        slippage == parseFloat(r.maxSlippage)
    IN  IF r.token = "SOL" /\ ~amount.nan /\ amount.n > MAX_AMOUNT_SOL
            THEN ErrAmount
        ELSE IF \/ r.source \notin ValidAddresses
                \/ r.destination \notin ValidAddresses THEN ErrAddress
        ELSE IF r.source = r.destination THEN ErrSelf
        ELSE IF amount.nan \/ amount.n <= 0 THEN ErrAmountInvalid
        ELSE IF slippage.nan \/ slippage.n < 0 \/ slippage.n > 100
            THEN ErrSlippage
        ELSE IF ~Falsy(r.version) /\ r.version # "1.0" THEN ErrVersion
        ELSE Ok

-----------------------------------------------------------------------------
(* SignatureService: the nonce store *)

\* redis.get(`nonce:${n}`) !== null: the key is set and its TTL has not run out
RedisHas(n) == redisStore[n] # NoEntry /\ now < redisStore[n]

\* isNonceUsed: a Redis error is caught and answered "unused"
isNonceUsed(n, redisFails) ==
    IF redis
    THEN IF redisFails THEN FALSE ELSE RedisHas(n)
    ELSE nonceCache[n] # NoEntry

cleanupNonceCache(cache, t) ==
    [n \in DOMAIN cache |->
        IF cache[n] # NoEntry /\ t - cache[n] > maxAge THEN NoEntry ELSE cache[n]]

-----------------------------------------------------------------------------
(* SignatureService.verifySignature *)

\* Two other orders of the steps below, for testing the properties that
\* depend on the order
StepsConsumeBeforeDomain == <<"nonce", "consume", "domain", "crypto", "security">>

StepsDomainBeforeNonce == <<"domain", "nonce", "crypto", "security", "consume">>

\* What verifySignature does after `await this.validateNonce(...)` resumes, in
\* the order of the code: the verdict of the lookup, validateDomain,
\* verifyCryptographicSignature, performSecurityChecks, consumeNonce.
StepsAfterLookup == <<"nonce", "domain", "crypto", "security", "consume">>

NoProgress ==
    [error |-> Ok, consumed |-> FALSE, cryptoChecked |-> FALSE,
     claimedAtCrypto |-> FALSE]

\* Runs the steps for request r whose lookup answered `used`; writeFails says
\* whether redis.setEx throws. Stops at the first failure.
RECURSIVE RunSteps(_, _, _, _, _)
RunSteps(steps, r, used, writeFails, acc) ==
    IF steps = <<>> THEN acc
    ELSE LET s == Head(steps)
             e == CASE s = "nonce" -> IF used THEN ErrReplay ELSE Ok
                    [] s = "domain" -> validateDomain(r.domain)
                    [] s = "crypto" -> verifyCryptographicSignature(r)
                    [] s = "security" -> performSecurityChecks(r)
                    [] s = "consume" -> IF redis /\ writeFails THEN ErrConsume ELSE Ok
             a == CASE s = "crypto" ->
                         [acc EXCEPT !.cryptoChecked = TRUE,
                                     !.claimedAtCrypto = acc.consumed]
                    [] s = "consume" /\ e = Ok -> [acc EXCEPT !.consumed = TRUE]
                    [] OTHER -> acc
         IN IF e # Ok THEN [a EXCEPT !.error = e]
            ELSE RunSteps(Tail(steps), r, used, writeFails, a)


\* redisStore or nonceCache, whichever the service uses now, holds nonce n
NonceStored(n) == IF redis THEN RedisHas(n) ELSE nonceCache[n] # NoEntry

\* The checks of the verify-signature route before it calls the service: the
\* express-validator chain, then source !== publicKey. batch-verify validates
\* only the signature's and the public key's lengths, and that signatureData
\* is an object.
RouteChecks(r, viaBatch) ==
    IF viaBatch
        THEN IF r.shape = "null" THEN ErrRouteValidation ELSE Ok
    ELSE IF \/ r.shape # "ok"
            \/ NonceLength(r.nonce) \notin 32..64
            \/ r.timestamp.form # "num" \/ r.expiry.form # "num"
            \/ r.amount.form # "num"
            \/ r.domain = "" THEN ErrRouteValidation
    ELSE IF r.source # r.publicKey THEN ErrRouteKey
    ELSE Ok

\* What verifySignature checks before it suspends at the nonce lookup:
\* validateInputs, validateTimestamp, and validateNonce's format checks.
ChecksBeforeLookup(r, t) ==
    IF validateInputs(r) # Ok THEN validateInputs(r)
    ELSE IF validateTimestamp(r, t) # Ok THEN validateTimestamp(r, t)
    ELSE IF ~NonceFormatOk(r.nonce) THEN ErrNonceFormat
    ELSE Ok

\* A verdict as the model records it: the request, valid and error as the
\* caller gets them, and what happened in the call that gave it:
\*   viaRoute: the route rejected the request before calling the service;
\*   resumed: the verdict came after the nonce lookup (else on arrival);
\*   used: the lookup answered "used";
\*   prior: a call for the same request had returned valid before;
\*   peerValid: a call for the same request returned valid while this one
\*     was suspended at the lookup;
\*   storeFailed: redis.get or redis.setEx threw in this call;
\*   cryptoChecked: verifyCryptographicSignature was evaluated;
\*   claimedAtCrypto: this call had consumed the nonce when it was;
\*   propagated: the call threw instead of returning the verdict.
NoVerdict ==
    [rid |-> 0, valid |-> FALSE, error |-> Ok, viaRoute |-> FALSE,
     resumed |-> FALSE, used |-> FALSE, prior |-> FALSE, peerValid |-> FALSE,
     storeFailed |-> FALSE, cryptoChecked |-> FALSE,
     claimedAtCrypto |-> FALSE, propagated |-> FALSE]

\* A handler that throws again what it caught, for testing the properties
\* that depend on the catch block
catchAndRethrow(thrown) == thrown

\* catch (error) of verifySignature: logVerificationError, which catches
\* what it throws itself, then return {valid: false, error}. Says whether
\* the call throws, given that its body threw.
catchAndReturn(thrown) == FALSE

\* The calls of bag calls, those for request rid now knowing that a call
\* for the same request returned valid
MarkPeers(calls, rid) ==
    LET mark(c) == IF c.rid = rid THEN [c EXCEPT !.peerValid = TRUE] ELSE c
        count(c) == IF c \in DOMAIN calls THEN calls[c] ELSE 0
    IN [d \in {mark(c) : c \in DOMAIN calls} |->
           IF d.rid = rid
           THEN count(d) + count([d EXCEPT !.peerValid = FALSE])
           ELSE count(d)]

\* A request arrives (viaBatch: as an item of batch-verify, else at
\* verify-signature) and runs until it is rejected or verifySignature
\* suspends at the nonce lookup; redisFails: redis.get throws.
VerifyStart(rid, viaBatch, redisFails) ==
    LET r == Requests[rid]
        routeErr == RouteChecks(r, viaBatch)
        pre == IF routeErr # Ok THEN routeErr ELSE ChecksBeforeLookup(r, now)
    IN /\ redisFails => (redis /\ pre = Ok)
       /\ IF pre # Ok
          THEN /\ last' = [NoVerdict EXCEPT !.rid = rid, !.error = pre,
                                            !.viaRoute = (routeErr # Ok),
                                            !.prior = (rid \in verified)]
               /\ UNCHANGED pending
          ELSE /\ BagCardinality(pending) < MaxInFlight
               /\ pending' = pending (+) SetToBag({
                      [rid |-> rid,
                       used |-> isNonceUsed(r.nonce, redisFails),
                       peerValid |-> FALSE,
                       lookupFailed |-> redisFails]})
               /\ last' = NoVerdict
       /\ UNCHANGED <<now, redis, redisStore, nonceCache, verified>>

\* verifySignature called by a caller other than the two routes, with
\* request rid as its arguments, up to the nonce lookup
ServiceStart(rid, redisFails) ==
    LET r == Requests[rid]
        pre == ChecksBeforeLookup(r, now)
    IN /\ redisFails => (redis /\ pre = Ok)
       /\ IF pre # Ok
          THEN /\ last' = [NoVerdict EXCEPT !.rid = rid, !.error = pre,
                                            !.prior = (rid \in verified)]
               /\ UNCHANGED pending
          ELSE /\ BagCardinality(pending) < MaxInFlight
               /\ pending' = pending (+) SetToBag({
                      [rid |-> rid,
                       used |-> isNonceUsed(r.nonce, redisFails),
                       peerValid |-> FALSE,
                       lookupFailed |-> redisFails]})
               /\ last' = NoVerdict
       /\ UNCHANGED <<now, redis, redisStore, nonceCache, verified>>

\* The response of the verify-signature route to a call with verdict v:
\* its HTTP status and its member `code` ("" when it has none)
ServiceError == 500

verifySignatureResponse(v) ==
    IF v.propagated THEN [status |-> ServiceError, code |-> "SERVICE_ERROR"]
    ELSE IF v.viaRoute THEN [status |-> BadRequest, code |-> ""]
    ELSE IF ~v.valid THEN [status |-> BadRequest, code |-> "VERIFICATION_FAILED"]
    ELSE [status |-> Success, code |-> ""]

\* A suspended call c resumes and runs to its verdict; writeFails:
\* redis.setEx throws.
VerifyFinish(c, writeFails) ==
    LET r == Requests[c.rid]
        out == RunSteps(StepsAfterLookup, r, c.used, writeFails, NoProgress)
        valid == (out.error = Ok)
        others == pending (-) SetToBag({c})
    IN /\ BagIn(c, pending)
       /\ writeFails => (redis /\ out.error = ErrConsume)
       /\ IF out.consumed
          THEN IF redis
               THEN /\ redisStore' = [redisStore EXCEPT
                                         ![r.nonce] = now + REDIS_NONCE_TTL_MS]
                    /\ UNCHANGED nonceCache
               ELSE /\ nonceCache' = cleanupNonceCache(
                                        [nonceCache EXCEPT ![r.nonce] = now], now)
                    /\ UNCHANGED redisStore
          ELSE UNCHANGED <<redisStore, nonceCache>>
       /\ last' = [rid |-> c.rid, valid |-> valid, error |-> out.error,
                   viaRoute |-> FALSE, resumed |-> TRUE, used |-> c.used,
                   prior |-> (c.rid \in verified), peerValid |-> c.peerValid,
                   storeFailed |-> (c.lookupFailed \/ writeFails),
                   cryptoChecked |-> out.cryptoChecked,
                   claimedAtCrypto |-> out.claimedAtCrypto,
                   propagated |-> catchAndReturn(out.error = ErrConsume)]
       /\ verified' = IF valid THEN verified \cup {c.rid} ELSE verified
       /\ pending' = IF valid THEN MarkPeers(others, c.rid) ELSE others
       /\ UNCHANGED <<now, redis>>

\* Time passes; Redis drops the keys whose TTL has run out
Tick(t) ==
    /\ t > now
    /\ now' = t
    /\ redisStore' = [n \in DOMAIN redisStore |->
                        IF redisStore[n] # NoEntry /\ redisStore[n] <= t
                        THEN NoEntry ELSE redisStore[n]]
    /\ last' = NoVerdict
    /\ UNCHANGED <<redis, nonceCache, pending, verified>>

\* The Redis client emits 'error': the handler sets this.redis = null and
\* the service falls back to nonceCache.
RedisError ==
    /\ redis
    /\ redis' = FALSE
    /\ last' = NoVerdict
    /\ UNCHANGED <<now, redisStore, nonceCache, pending, verified>>

\* The state once the constructor's initializeRedis has settled: connected
\* (this.redis set) or not (this.redis = null).
SvcInit(modes) ==
    /\ now = 0
    /\ redis \in modes
    /\ redisStore = [n \in Nonces |-> NoEntry]
    /\ nonceCache = [n \in Nonces |-> NoEntry]
    /\ pending = EmptyBag
    /\ last = NoVerdict
    /\ verified = {}

\* The requests of the concurrent specification: those on nonce n1
CoreIds == {i \in RequestIds : Requests[i].nonce # "n2"}

NoCallPending == pending = EmptyBag

-----------------------------------------------------------------------------
(* NonceManager.validateAndConsume *)

NmNonces == {"m1", "m2", "short"}

\* /^[A-Za-z0-9_-]+$/ and length 43 ("m1" and "m2" are such nonces too)
isValidNonceFormat(n) == NonceFormatOk(n) /\ NonceLength(n) = 43

ErrNmFormat == "Invalid nonce format"
ErrNmReplay == "Nonce has already been used (replay attack detected)"
ErrNmStore == "Nonce validation failed: Failed to store nonce - cannot prevent replay attacks"

NONCE_EXPIRY_MS == 24 * 60 * 60 * 1000

\* The key `nonce:${n}` is set in the Redis at REDIS_URL and its TTL has
\* not run out. SignatureService and NonceManager connect to the same Redis
\* and name their keys alike: store holds the keys one of them has written.
KeyLive(store, n) == n \in DOMAIN store /\ store[n] # NoEntry /\ now < store[n]

\* exists(): redis.exists(key) === 1, or localCache.has(nonce); an error is
\* caught and answered false
exists(n, redisFails) ==
    IF nmRedis
    THEN IF redisFails THEN FALSE
         ELSE KeyLive(nmRedisStore, n) \/ KeyLive(redisStore, n)
    ELSE n \in DOMAIN nmLocalCache /\ nmLocalCache[n] # NoEntry

NmIdle == [nonce |-> ""]

NmNoResult == [nonce |-> "", success |-> FALSE, error |-> Ok, peerSuccess |-> FALSE]

NmFreeSlot(s) ==
    /\ nmCalls[s] = NmIdle
    /\ \A q \in 1..(s - 1) : nmCalls[q] # NmIdle

\* validateAndConsume(n) up to `await this.exists(nonce)`
NmStart(n, redisFails) ==
    /\ redisFails => (nmRedis /\ isValidNonceFormat(n))
    /\ IF ~isValidNonceFormat(n)
       THEN /\ nmLast' = [NmNoResult EXCEPT !.nonce = n, !.error = ErrNmFormat]
            /\ UNCHANGED nmCalls
       ELSE /\ \E s \in 1..MaxNmCalls :
                 /\ NmFreeSlot(s)
                 /\ nmCalls' = [nmCalls EXCEPT ![s] =
                       [nonce |-> n, exists |-> exists(n, redisFails),
                        peerSuccess |-> FALSE]]
            /\ nmLast' = NmNoResult
    /\ UNCHANGED <<nmRedis, nmRedisStore, nmLocalCache>>

\* validateAndConsume from the answer of exists() to its return: the replay
\* verdict, or store() and success; writeFails: redis.setEx throws
NmFinish(s, writeFails) ==
    LET c == nmCalls[s]
        ok == ~c.exists /\ ~writeFails
    IN /\ c # NmIdle
       /\ writeFails => (nmRedis /\ ~c.exists)
       /\ IF ok
          THEN IF nmRedis
               THEN /\ nmRedisStore' = [nmRedisStore EXCEPT
                                           ![c.nonce] = now + NONCE_EXPIRY_MS]
                    /\ UNCHANGED nmLocalCache
               ELSE /\ nmLocalCache' = [nmLocalCache EXCEPT
                                           ![c.nonce] = now + NONCE_EXPIRY_MS]
                    /\ UNCHANGED nmRedisStore
          ELSE UNCHANGED <<nmRedisStore, nmLocalCache>>
       /\ nmLast' = [nonce |-> c.nonce, success |-> ok,
                     error |-> IF c.exists THEN ErrNmReplay
                               ELSE IF writeFails THEN ErrNmStore ELSE Ok,
                     peerSuccess |-> c.peerSuccess]
       /\ nmCalls' = [q \in 1..MaxNmCalls |->
                        IF q = s THEN NmIdle
                        ELSE IF nmCalls[q] # NmIdle /\ ok /\ nmCalls[q].nonce = c.nonce
                             THEN [nmCalls[q] EXCEPT !.peerSuccess = TRUE]
                             ELSE nmCalls[q]]
       /\ UNCHANGED nmRedis

\* The hourly timer: cleanupExpiredNonces
NmCleanup ==
    /\ ~nmRedis
    /\ nmLocalCache' = [n \in DOMAIN nmLocalCache |->
                          IF nmLocalCache[n] # NoEntry /\ nmLocalCache[n] < now
                          THEN NoEntry ELSE nmLocalCache[n]]
    /\ nmLast' = NmNoResult
    /\ UNCHANGED <<nmRedis, nmRedisStore, nmCalls>>

\* The Redis client emits 'error': this.redis = null
NmRedisError ==
    /\ nmRedis
    /\ nmRedis' = FALSE
    /\ nmLast' = NmNoResult
    /\ UNCHANGED <<nmRedisStore, nmLocalCache, nmCalls>>

NmInit(modes) ==
    /\ nmRedis \in modes
    /\ nmRedisStore = [n \in NmNonces |-> NoEntry]
    /\ nmLocalCache = [n \in NmNonces |-> NoEntry]
    /\ nmCalls = [s \in 1..MaxNmCalls |-> NmIdle]
    /\ nmLast = NmNoResult

-----------------------------------------------------------------------------
(* SolanaDeepLinkApp: the execute flow *)

Links == {"linkA", "linkB"}

NoLink == "none"

\* What fetch() may answer: a status that is not ok; the body of this
\* repository's route on success, {success: true, verified: true, ...}, which
\* has no member `valid`; and bodies that carry valid: true or valid: false.
Responses ==
    { [ok |-> FALSE, body |-> "error"],
      [ok |-> TRUE, body |-> "success-verified"],
      [ok |-> TRUE, body |-> "valid-true"],
      [ok |-> TRUE, body |-> "valid-false"] }

\* verificationResult.valid is truthy
ResultValid(resp) == resp.ok /\ resp.body = "valid-true"

\* this.walletConnector.isConnected(): the constructor's own property
\* isConnected (a boolean) shadows the method of the same name, so the call
\* throws a TypeError whether or not a wallet is connected.
isConnectedCall == "TypeError"

ExecNone == "none"
ExecNoLink == "No link data available for execution"
ExecNotCallable == "this.walletConnector.isConnected is not a function"
ExecNotConnected == "Please connect your wallet first"
ExecHanded == "handed to executeDeepLinkTransfer"

\* parseDeepLinkUrl: displayLinkDetails stores the link, verifyLink sends it
\* to the backend
ParseDeepLinkUrl(l) ==
    /\ verifying[l] < MaxVerifying
    /\ currentLinkData' = l
    /\ verifying' = [verifying EXCEPT ![l] = @ + 1]
    /\ UNCHANGED <<btnDisabled, walletConnected, verifiedOk, handed>>

\* verifyLink resumes with the backend's answer
VerifyResponse(l, resp) ==
    /\ verifying[l] > 0
    /\ verifying' = [verifying EXCEPT ![l] = @ - 1]
    /\ IF ResultValid(resp)
       THEN /\ btnDisabled' = FALSE
            /\ verifiedOk' = verifiedOk \cup {l}
       ELSE UNCHANGED <<btnDisabled, verifiedOk>>
    /\ UNCHANGED <<currentLinkData, walletConnected, handed>>

\* A click on executeTransferBtn: executeTransfer
ExecuteTransfer ==
    /\ ~btnDisabled
    /\ handed' =
          IF currentLinkData = NoLink THEN [handed EXCEPT !.result = ExecNoLink]
          ELSE IF isConnectedCall = "TypeError"
               THEN [handed EXCEPT !.result = ExecNotCallable]
          ELSE IF ~walletConnected
               THEN [handed EXCEPT !.result = ExecNotConnected]
          ELSE [links |-> handed.links \cup {currentLinkData}, result |-> ExecHanded]
    /\ UNCHANGED <<currentLinkData, btnDisabled, walletConnected, verifying, verifiedOk>>

\* WalletConnector.connect / disconnect
ToggleWallet ==
    /\ walletConnected' = ~walletConnected
    /\ UNCHANGED <<currentLinkData, btnDisabled, verifying, verifiedOk, handed>>

\* The page's markup is not among the sources: executeTransferBtn may start
\* enabled or disabled.
AppInit(disabled) ==
    /\ currentLinkData = NoLink
    /\ btnDisabled \in disabled
    /\ walletConnected = FALSE
    /\ verifying = [l \in Links |-> 0]
    /\ verifiedOk = {}
    /\ handed = [links |-> {}, result |-> ExecNone]

-----------------------------------------------------------------------------
(* GET /api/verification/nonce/:nonce *)

\* The response: its HTTP status, its member `exists`, and whether its
\* member `info` is a record (not null)
NoStatus == [nonce |-> "", status |-> 0, exists |-> FALSE, info |-> FALSE]

\* getNonceInfo returns a record. Over Redis: redis.get finds the key and
\* JSON.parse reads its value, which is so for the JSON that
\* NonceManager.store wrote; of the value 'used' that SignatureService
\* wrote JSON.parse throws, and the catch block returns null. In the local
\* cache: the entry is there and its expiresAt lies after Date.now().
getNonceInfo(n, redisFails) ==
    IF nmRedis
    THEN ~redisFails /\ KeyLive(nmRedisStore, n)
    ELSE /\ n \in DOMAIN nmLocalCache
         /\ nmLocalCache[n] # NoEntry
         /\ nmLocalCache[n] > now

\* stats.nonces of the response of GET /stats: storage is "" when
\* getStats caught an error and answered without the member
NoStats == [answered |-> FALSE, storage |-> ""]

StatusInit == queried = NoStatus /\ stats = NoStats

\* The same route with a handler that records the nonce it was asked for,
\* for testing the properties that depend on the route only reading
NonceStatusStoring(n, redisFails) ==
    /\ redisFails => (nmRedis /\ isValidNonceFormat(n))
    /\ queried' = IF isValidNonceFormat(n)
                  THEN [nonce |-> n, status |-> Success,
                        exists |-> exists(n, redisFails),
                        info |-> exists(n, redisFails)
                                    /\ getNonceInfo(n, redisFails)]
                  ELSE [nonce |-> n, status |-> BadRequest, exists |-> FALSE,
                        info |-> FALSE]
    /\ stats' = NoStats
    /\ last' = NoVerdict
    /\ nmLast' = NmNoResult
    /\ redisStore' = IF isValidNonceFormat(n)
                     THEN [redisStore EXCEPT ![n] = now + REDIS_NONCE_TTL_MS]
                     ELSE redisStore
    /\ UNCHANGED <<now, redis, nonceCache, pending, verified>>
    /\ UNCHANGED <<nmRedis, nmRedisStore, nmLocalCache, nmCalls>>
    /\ UNCHANGED <<appVars, signVars, opsVars>>

\* GET /nonce/:nonce: nonceManager.isValidNonceFormat or 400, then
\* nonceManager.exists and, for a nonce that exists, getNonceInfo: both only
\* read the store, and both catch what the store throws (redisFails).
NonceStatus(n, redisFails) ==
    /\ redisFails => (nmRedis /\ isValidNonceFormat(n))
    /\ queried' = IF isValidNonceFormat(n)
                  THEN [nonce |-> n, status |-> Success,
                        exists |-> exists(n, redisFails),
                        info |-> exists(n, redisFails)
                                    /\ getNonceInfo(n, redisFails)]
                  ELSE [nonce |-> n, status |-> BadRequest, exists |-> FALSE,
                        info |-> FALSE]
    /\ stats' = NoStats
    /\ last' = NoVerdict
    /\ nmLast' = NmNoResult
    /\ UNCHANGED <<now, redis, redisStore, nonceCache, pending, verified>>
    /\ UNCHANGED <<nmRedis, nmRedisStore, nmLocalCache, nmCalls>>
    /\ UNCHANGED <<appVars, signVars, opsVars>>

\* NonceManager.getStats: storage is read from this.redis of the
\* NonceManager; keysFails: redis.keys throws and the catch block answers
\* {timestamp, error}
getStats(keysFails) ==
    IF nmRedis /\ keysFails THEN [answered |-> TRUE, storage |-> ""]
    ELSE [answered |-> TRUE,
          storage |-> IF nmRedis THEN "redis" ELSE "local_cache"]

\* GET /stats: signatureService.getVerificationStats, which returns
\* constants, and nonceManager.getStats
Stats(keysFails) ==
    /\ keysFails => nmRedis
    /\ stats' = getStats(keysFails)
    /\ queried' = NoStatus
    /\ last' = NoVerdict
    /\ nmLast' = NmNoResult
    /\ UNCHANGED <<now, redis, redisStore, nonceCache, pending, verified>>
    /\ UNCHANGED <<nmRedis, nmRedisStore, nmLocalCache, nmCalls>>
    /\ UNCHANGED <<appVars, signVars, opsVars>>

-----------------------------------------------------------------------------
(* The signing side: SecurityUtils and DeepLinkGenerator *)

\* Field values are written as strings: "1" is the number 1, "NaN" the
\* number NaN, "null" the JSON null. timestamp and expiry are instants.
SIGNATURE_VALIDITY_MS == 15 * 60 * 1000

NumberFields == {"timestamp", "expiry"}

\* undefined, '', 0 and NaN are falsy
FalsyValue(v) == v \in {Absent, "", "0", "NaN"}

\* v || d
OrElse(v, d) == IF FalsyValue(v) THEN d ELSE v

\* `${v}`
Template(v) == IF v = Absent THEN "undefined" ELSE v

\* What a caller may pass to a signing operation. memo "wide" holds a
\* character above U+00FF.
TransferDatas ==
    [source : {"A"}, destination : {"B"}, amount : {"1", "NaN"},
     token : {Absent, "USDC"}, memo : {Absent, "hi", "wide"},
     maxSlippage : {Absent, "0.05"}]

\* generateNonce(): 32 random bytes
GeneratedNonces == {"n1", "n2"}

createSignatureData(transferData, t, nonce) ==
    [nonce |-> nonce,
     timestamp |-> t,
     expiry |-> t + SIGNATURE_VALIDITY_MS,
     domain |-> "localhost:3000",
     version |-> "1.0",
     source |-> transferData.source,
     destination |-> transferData.destination,
     amount |-> transferData.amount,
     token |-> OrElse(transferData.token, "SOL"),
     memo |-> OrElse(transferData.memo, ""),
     maxSlippage |-> OrElse(transferData.maxSlippage, "0.01")]

\* Another encoder, for testing the properties that depend on the order of
\* the entries
createMessageToSignTokenFirst(d) ==
    << <<"token", Template(OrElse(d.token, "SOL"))>>,
       <<"nonce", Template(d.nonce)>>,
       <<"timestamp", d.timestamp>>,
       <<"expiry", d.expiry>>,
       <<"domain", Template(d.domain)>>,
       <<"version", Template(OrElse(d.version, "1.0"))>>,
       <<"source", Template(d.source)>>,
       <<"destination", Template(d.destination)>>,
       <<"amount", Template(d.amount)>>,
       <<"memo", Template(OrElse(d.memo, ""))>>,
       <<"maxSlippage", Template(OrElse(d.maxSlippage, "0.01"))>> >>

\* SignatureService.createMessageToSign: the entries that join('\\n') joins
createMessageToSign(d) ==
    << <<"nonce", Template(d.nonce)>>,
       <<"timestamp", d.timestamp>>,
       <<"expiry", d.expiry>>,
       <<"domain", Template(d.domain)>>,
       <<"version", Template(OrElse(d.version, "1.0"))>>,
       <<"source", Template(d.source)>>,
       <<"destination", Template(d.destination)>>,
       <<"amount", Template(d.amount)>>,
       <<"token", Template(OrElse(d.token, "SOL"))>>,
       <<"memo", Template(OrElse(d.memo, ""))>>,
       <<"maxSlippage", Template(OrElse(d.maxSlippage, "0.01"))>> >>

\* SecurityUtils.createMessageToSign
securityUtilsCreateMessageToSign(d) ==
    << <<"nonce", Template(d.nonce)>>,
       <<"timestamp", d.timestamp>>,
       <<"expiry", d.expiry>>,
       <<"domain", Template(d.domain)>>,
       <<"version", Template(d.version)>>,
       <<"source", Template(d.source)>>,
       <<"destination", Template(d.destination)>>,
       <<"amount", Template(d.amount)>>,
       <<"token", Template(d.token)>>,
       <<"memo", Template(d.memo)>>,
       <<"maxSlippage", Template(d.maxSlippage)>> >>

\* The characters of a field value, as far as the encoding can tell them
\* apart: the delimiter, the colon, and the text between them
Chars(v) ==
    CASE v = "a\nmemo:b" -> <<"a", "\n", "memo", ":", "b">>
      [] v = "SOL\nmemo:a" -> <<"SOL", "\n", "memo", ":", "a">>
      [] OTHER -> <<v>>

\* [...].join('\n') of the entries `${key}:${value}`, then
\* TextEncoder.encode: the bytes that are signed and verified
RECURSIVE join(_)
join(message) ==
    IF message = <<>> THEN <<>>
    ELSE <<message[1][1], ":">>
         \o (IF message[1][1] \in NumberFields
             THEN <<ToString(message[1][2])>> ELSE Chars(message[1][2]))
         \o (IF Len(message) = 1 THEN <<>> ELSE <<"\n">> \o join(Tail(message)))

\* nacl.sign.detached(message, key): a signature is modelled by the key and
\* the bytes it was made with
NoSignature == [key |-> "", message |-> <<>>]

sign(message, key) == [key |-> key, message |-> message]

\* nacl.sign.detached.verify(createMessageToSign(data), signature, publicKey)
\* in verifyCryptographicSignature
VerifiesUnder(data, signature, publicKey) ==
    /\ signature.key = publicKey
    /\ join(signature.message) = join(createMessageToSign(data))

NoPair == [by |-> "none", threw |-> FALSE, data |-> {}, signature |-> NoSignature]

\* JSON.stringify leaves out the properties that are undefined and writes
\* NaN as null; JSON.parse gives back what the text says
JSONstringify(d) ==
    [text |-> [f \in {g \in DOMAIN d : g \in NumberFields \/ d[g] # Absent} |->
                  IF f \notin NumberFields /\ d[f] = "NaN" THEN "null" ELSE d[f]]]

JSONparse(j) == j.text

\* btoa throws InvalidCharacterError on a character above U+00FF; atob gives
\* back the string btoa was given
BtoaThrows(j) == "memo" \in DOMAIN j.text /\ j.text.memo = "wide"

btoa(j) == [b64 |-> j]

atob(b) == b.b64

\* A URL is modelled by its query parameters: has names those that are
\* present and not empty, garbled says that d is not the base64 of a JSON
\* text. URLSearchParams.get undoes what URLSearchParams.toString did.
NoLinkMade ==
    [made |-> FALSE, threw |-> FALSE, has |-> {}, garbled |-> FALSE,
     d |-> {}, s |-> NoSignature, v |-> ""]

createDeepLink(signedData) ==
    LET json == JSONstringify(CHOOSE d \in signedData.data : TRUE)
    IN  IF BtoaThrows(json)
        THEN [NoLinkMade EXCEPT !.threw = TRUE]
        ELSE [made |-> TRUE, threw |-> FALSE, has |-> {"d", "s", "v"},
              garbled |-> FALSE, d |-> {btoa(json)},
              s |-> signedData.signature, v |-> "1.0"]

ErrLinkMissing == "Invalid deep link format: Missing required parameters"
ErrLinkVersion == "Invalid deep link format: Unsupported link version"
ErrLinkData == "Invalid deep link format: not base64 JSON"

NoParsed ==
    [url |-> NoLinkMade, ok |-> FALSE, error |-> "", data |-> {},
     signature |-> NoSignature, version |-> ""]

\* A parser without the checks of the parameters, for testing the
\* properties that depend on them
parseDeepLinkUnchecked(url) ==
    IF url.garbled \/ url.d = {}
    THEN [NoParsed EXCEPT !.url = url, !.error = ErrLinkData]
    ELSE [url |-> url, ok |-> TRUE, error |-> "",
          data |-> {JSONparse(atob(b)) : b \in url.d},
          signature |-> url.s, version |-> url.v]

parseDeepLink(url) ==
    IF ~({"d", "s", "v"} \subseteq url.has)
    THEN [NoParsed EXCEPT !.url = url, !.error = ErrLinkMissing]
    ELSE IF url.v # "1.0"
    THEN [NoParsed EXCEPT !.url = url, !.error = ErrLinkVersion]
    ELSE IF url.garbled
    THEN [NoParsed EXCEPT !.url = url, !.error = ErrLinkData]
    ELSE [url |-> url, ok |-> TRUE, error |-> "",
          data |-> {JSONparse(atob(b)) : b \in url.d},
          signature |-> url.s, version |-> url.v]

NoEncoded == [data |-> {}, signer |-> <<>>, verifier |-> <<>>]

\* Nothing has been signed on this page (the model follows one signing
\* operation per page)
NothingSigned == signedPair = NoPair /\ link = NoLinkMade /\ parsed = NoParsed

\* SecurityUtils.signTransferData(transferData, privateKey)
SecuritySign(transferData, nonce, key) ==
    LET signatureData == createSignatureData(transferData, now, nonce)
    IN  /\ NothingSigned
        /\ signedPair' =
              [by |-> "SecurityUtils", threw |-> FALSE,
               data |-> {signatureData},
               signature |-> sign(securityUtilsCreateMessageToSign(signatureData), key)]
        /\ encoded' = NoEncoded
        /\ UNCHANGED <<link, parsed>>

\* DeepLinkGenerator.signTransferData(transferData): createSignatureData,
\* `await this.walletConnector.signMessage(message)`, which returns at
\* instant t, and createSignatureData again. connected: the wallet is; if
\* it is not signMessage throws and so does signTransferData.
GeneratorSign(transferData, nonce, nonceAgain, t, connected, key) ==
    LET message == securityUtilsCreateMessageToSign(
                       createSignatureData(transferData, now, nonce))
        signatureData == createSignatureData(transferData, t, nonceAgain)
    IN  /\ NothingSigned
        /\ t >= now
        /\ now' = t
        /\ signedPair' =
              IF connected
              THEN [by |-> "DeepLinkGenerator", threw |-> FALSE,
                    data |-> {signatureData}, signature |-> sign(message, key)]
              ELSE [NoPair EXCEPT !.by = "DeepLinkGenerator", !.threw = TRUE]
        /\ encoded' = NoEncoded
        /\ UNCHANGED <<link, parsed>>

\* SecurityUtils.createDeepLink(signedData) on the pair just signed
CreateDeepLink ==
    /\ signedPair.data # {}
    /\ link = NoLinkMade
    /\ link' = createDeepLink(signedPair)
    /\ UNCHANGED <<signedPair, parsed, encoded>>

\* SecurityUtils.parseDeepLink(url), url being the link made or the link
\* with parameters left out, another v, or another d
ParseDeepLink(has, v, garbled) ==
    /\ link.made
    /\ parsed' = parseDeepLink([link EXCEPT !.has = has, !.v = v,
                                            !.garbled = garbled])
    /\ UNCHANGED <<signedPair, link, encoded>>

\* A record as a verifier may receive it: what createSignatureData makes,
\* or the same with optional fields absent or falsy
EncodeInputs ==
    {[createSignatureData([source |-> "A", destination |-> "B", amount |-> "1",
                           token |-> "SOL", memo |-> "hi",
                           maxSlippage |-> "0.05"], 0, "n1")
         EXCEPT !.version = a, !.token = b, !.memo = c, !.maxSlippage = e] :
       a \in {Absent, "1.0"}, b \in {Absent, "", "SOL"},
       c \in {Absent, "", "hi"}, e \in {Absent, "0", "0.05"}}
    \cup
    {[createSignatureData([source |-> "A", destination |-> "B", amount |-> "1",
                           token |-> p[1], memo |-> p[2],
                           maxSlippage |-> "0.05"], 0, "n1")
         EXCEPT !.version = "1.0"] :
       p \in {<<"SOL", "a\nmemo:b">>, <<"SOL\nmemo:a", "b">>}}

\* Both createMessageToSign applied to record d
Encode(d) ==
    /\ NothingSigned
    /\ encoded' = [data |-> {d},
                   signer |-> securityUtilsCreateMessageToSign(d),
                   verifier |-> createMessageToSign(d)]
    /\ UNCHANGED <<signedPair, link, parsed>>

SignInit ==
    /\ signedPair = NoPair
    /\ link = NoLinkMade
    /\ parsed = NoParsed
    /\ encoded = NoEncoded

-----------------------------------------------------------------------------
(* POST /api/verification/batch-verify *)

\* body('verifications').isArray({min: 1, max: 10})
MAX_BATCH_ITEMS == 10

\* The requests a batch is made of: BaseRequest, the same on nonce n2, the
\* one of an untrusted domain, and the one whose signatureData is null
BatchIds == {1, 2, 3, Len(Requests)}

Batches == UNION {[1..k -> BatchIds] : k \in 0..MaxBatch}

NoSummary == [total |-> 0, successful |-> 0, failed |-> 0]

\* state: "idle", "running" (in the loop), "rejected" (400 'Validation
\* failed'), "answered" (res.json with results and summary); awaiting: the
\* loop is suspended at `await signatureService.verifySignature`
NoBatch ==
    [state |-> "idle", items |-> <<>>, results |-> <<>>, awaiting |-> FALSE,
     summary |-> NoSummary]

BatchInit == batch = NoBatch

\* The express-validator chain of the route, as far as it looks at the
\* items' signatureData and at their number
batchValidation(items) ==
    IF \/ Len(items) \notin 1..MAX_BATCH_ITEMS
       \/ \E k \in DOMAIN items : Requests[items[k]].shape = "null"
    THEN ErrRouteValidation ELSE Ok

\* A loop that numbers its results from 1, for testing the properties that
\* depend on the index
batchResultFromOne(i, v) ==
    [index |-> i + 1, success |-> ~v.propagated /\ v.valid, error |-> v.error,
     rid |-> v.rid]

\* results.push({index: i, success: result.valid, error: result.error, ...})
\* in the try block, or the same with success: false in the catch block
\* when the call threw; rid: the call whose verdict v is
batchResult(i, v) ==
    [index |-> i, success |-> ~v.propagated /\ v.valid, error |-> v.error,
     rid |-> v.rid]

\* summary of res.json: results.filter(r => r.success).length and
\* results.filter(r => !r.success).length
batchSummary(items, results) ==
    [total |-> Len(items),
     successful |-> Cardinality({k \in DOMAIN results : results[k].success}),
     failed |-> Cardinality({k \in DOMAIN results : ~results[k].success})]

\* The batch item the loop is at (i + 1 of the code's i)
BatchAt == Len(batch.results) + 1

\* A batch-verify request arrives and is validated
BatchArrive(items) ==
    /\ batch.state # "running"
    /\ batch' = [NoBatch EXCEPT
                    !.state = IF batchValidation(items) = Ok
                              THEN "running" ELSE "rejected",
                    !.items = items]
    /\ last' = NoVerdict
    /\ UNCHANGED <<now, redis, redisStore, nonceCache, pending, verified>>

\* The loop calls verifySignature for its next item; a call that is
\* rejected before the nonce lookup gives its result at once
BatchCall(redisFails) ==
    /\ batch.state = "running" /\ ~batch.awaiting
    /\ BatchAt <= Len(batch.items)
    /\ ServiceStart(batch.items[BatchAt], redisFails)
    /\ batch' = IF last' = NoVerdict
                THEN [batch EXCEPT !.awaiting = TRUE]
                ELSE [batch EXCEPT !.results =
                         Append(@, batchResult(Len(batch.results), last'))]

\* The call the loop awaits returns; its result is pushed
BatchResume(c, writeFails) ==
    /\ batch.state = "running" /\ batch.awaiting
    /\ VerifyFinish(c, writeFails)
    /\ batch' = [batch EXCEPT
                    !.awaiting = FALSE,
                    !.results = Append(@, batchResult(Len(batch.results), last'))]

\* After the last item: auditLogger.logEvent, which catches what it
\* throws, then res.json
BatchRespond ==
    /\ batch.state = "running" /\ ~batch.awaiting
    /\ BatchAt > Len(batch.items)
    /\ batch' = [batch EXCEPT
                    !.state = "answered",
                    !.summary = batchSummary(batch.items, batch.results)]
    /\ last' = NoVerdict
    /\ UNCHANGED <<now, redis, redisStore, nonceCache, pending, verified>>

-----------------------------------------------------------------------------
(* CacheService: acquireLock and releaseLock *)

\* acquireLock(resource, ttl = 5000)
LOCK_TTL_MS == 5000

Callers == {"c1", "c2"}

Resources == {"r1", "r2"}

\* No key lock:<resource>, and no lockValue in a caller's hand. lockValues
\* are the numbers from 1: crypto.randomBytes(16) never draws one twice.
NoLock == [value |-> 0, expires |-> 0]

\* What the last call was and what it returned (acquireLock: whether a
\* lockValue; releaseLock: result === 1)
NoOp == [kind |-> "none", caller |-> "", resource |-> "", result |-> FALSE]

LockInit ==
    /\ locks = [issued |-> 0, keys |-> [r \in Resources |-> NoLock], op |-> NoOp]
    /\ holds = [c \in Callers |-> [r \in Resources |-> NoLock]]

\* redis.call("get", key) is not nil: the key is set and PX has not run out
LockSet(keys, r) == keys[r] # NoLock /\ now < keys[r].expires

\* client.set(lockKey, lockValue, 'PX', ttl, 'NX'): sets the key unless it
\* is set
acquireLock(keys, r, lockValue) ==
    IF LockSet(keys, r) THEN keys
    ELSE [keys EXCEPT ![r] = [value |-> lockValue, expires |-> now + LOCK_TTL_MS]]

\* A release that deletes the key whatever its value, for testing the
\* properties that depend on the comparison
releaseLockUnchecked(keys, r, lockValue) ==
    [keys EXCEPT ![r] = NoLock]

\* The script of releaseLock: del if get(key) == lockValue, else 0
releaseLock(keys, r, lockValue) ==
    IF LockSet(keys, r) /\ keys[r].value = lockValue
    THEN [keys EXCEPT ![r] = NoLock]
    ELSE keys

\* Caller c calls acquireLock(r) and keeps the lockValue it returns
AcquireLock(c, r) ==
    LET lockValue == locks.issued + 1
        keys == acquireLock(locks.keys, r, lockValue)
        got == keys[r].value = lockValue
    IN /\ locks.issued < MaxLockValues
       /\ locks' = [issued |-> lockValue, keys |-> keys,
                    op |-> [kind |-> "acquire", caller |-> c, resource |-> r,
                            result |-> got]]
       /\ holds' = IF got THEN [holds EXCEPT ![c][r] = keys[r]] ELSE holds

\* Caller c calls releaseLock(r, lockValue) with the lockValue it keeps,
\* whether or not its TTL has run out, and forgets it
ReleaseLock(c, r) ==
    LET keys == releaseLock(locks.keys, r, holds[c][r].value)
    IN /\ holds[c][r] # NoLock
       /\ locks' = [locks EXCEPT
                       !.keys = keys,
                       !.op = [kind |-> "release", caller |-> c, resource |-> r,
                               result |-> (keys # locks.keys)]]
       /\ holds' = [holds EXCEPT ![c][r] = NoLock]

-----------------------------------------------------------------------------
(* GET /api/verification/health *)

\* The requests testSignatureService builds
ProbeIds == {i \in RecordIds : \E k \in 1..Len(HealthInstants) :
                Requests[i] = testData(HealthInstants[k])}

\* The health route calls testSignatureService, which builds testData at
\* the current instant and awaits verifySignature: up to the nonce lookup.
\* redisFails: redis.get throws.
HealthStart(redisFails) ==
    \E rid \in ProbeIds :
        /\ Requests[rid] = testData(now)
        /\ ServiceStart(rid, redisFails)

\* The probe's call resumes and returns its verdict; testSignatureService
\* drops it and returns {healthy: true}, and the route answers from that.
HealthFinish(c, writeFails) ==
    /\ c.rid \in ProbeIds
    /\ VerifyFinish(c, writeFails)

-----------------------------------------------------------------------------
(* Specifications *)

OnlySvc == UNCHANGED <<appVars, nmVars, statusVars, signVars, opsVars>>

OnlyNm == UNCHANGED <<svcVars, appVars, statusVars, signVars, opsVars>>

OnlyApp == UNCHANGED <<svcVars, nmVars, statusVars, signVars, opsVars>>

\* No status query has been answered and the signing side has done nothing
RestInit == StatusInit /\ SignInit /\ BatchInit /\ LockInit

\* The verification service and its routes: concurrent callers, a Redis
\* that can fail and be dropped
Init == SvcInit(BOOLEAN) /\ NmInit({FALSE}) /\ AppInit({TRUE}) /\ RestInit

Next ==
    \/ \E rid \in CoreIds, viaBatch \in BOOLEAN, redisFails \in BOOLEAN :
          VerifyStart(rid, viaBatch, redisFails) /\ OnlySvc
    \/ \E c \in BagToSet(pending), writeFails \in BOOLEAN :
          VerifyFinish(c, writeFails) /\ OnlySvc
    \/ \E t \in CoreInstants : Tick(t) /\ OnlySvc
    \/ RedisError /\ OnlySvc

Spec == Init /\ [][Next]_vars

\* The verification service called sequentially, its store available
NextSequential ==
    \/ \E rid \in RequestIds, viaBatch \in BOOLEAN :
          NoCallPending /\ VerifyStart(rid, viaBatch, FALSE) /\ OnlySvc
    \/ \E c \in BagToSet(pending) : VerifyFinish(c, FALSE) /\ OnlySvc
    \/ \E t \in Instants : Tick(t) /\ OnlySvc

SpecSequential == Init /\ [][NextSequential]_vars

\* The verification service called sequentially with every request of the
\* model, its store available; the clock moves between calls. A run ends
\* with the first request other than BaseRequest that is verified.
InitRecords ==
    SvcInit({TRUE}) /\ NmInit({FALSE}) /\ AppInit({TRUE}) /\ RestInit

OnlyBaseVerified == \A i \in verified : Requests[i] = BaseRequest

NextRecords ==
    \/ \E rid \in RecordIds, viaBatch \in BOOLEAN :
          /\ NoCallPending /\ OnlyBaseVerified
          /\ VerifyStart(rid, viaBatch, FALSE) /\ OnlySvc
    \/ \E c \in BagToSet(pending) : VerifyFinish(c, FALSE) /\ OnlySvc
    \/ \E t \in RecordInstants : NoCallPending /\ Tick(t) /\ OnlySvc

SpecRecords == InitRecords /\ [][NextRecords]_vars

\* NonceManager
InitNm == SvcInit({FALSE}) /\ NmInit(BOOLEAN) /\ AppInit({TRUE}) /\ RestInit

NextNm ==
    \/ \E n \in NmNonces, redisFails \in BOOLEAN : NmStart(n, redisFails) /\ OnlyNm
    \/ \E s \in 1..MaxNmCalls, writeFails \in BOOLEAN : NmFinish(s, writeFails) /\ OnlyNm
    \/ NmCleanup /\ OnlyNm
    \/ NmRedisError /\ OnlyNm
    \/ \E t \in Instants : Tick(t) /\ OnlySvc

SpecNm == InitNm /\ [][NextNm]_vars

\* The frontend
InitApp == SvcInit({FALSE}) /\ NmInit({FALSE}) /\ AppInit(BOOLEAN) /\ RestInit

NextApp ==
    \/ \E l \in Links : ParseDeepLinkUrl(l) /\ OnlyApp
    \/ \E l \in Links, resp \in Responses : VerifyResponse(l, resp) /\ OnlyApp
    \/ ExecuteTransfer /\ OnlyApp
    \/ ToggleWallet /\ OnlyApp

SpecApp == InitApp /\ [][NextApp]_vars

OnlySign == UNCHANGED <<svcVars, appVars, nmVars, statusVars, opsVars>>

SignerKeys == {"A"}

\* The signing side
InitSign == SvcInit({FALSE}) /\ NmInit({FALSE}) /\ AppInit({TRUE}) /\ RestInit

NextSign ==
    \/ \E td \in TransferDatas, n \in GeneratedNonces, k \in SignerKeys :
          SecuritySign(td, n, k) /\ UNCHANGED now
          /\ UNCHANGED <<redis, redisStore, nonceCache, pending, last, verified>>
          /\ UNCHANGED <<appVars, nmVars, statusVars, opsVars>>
    \/ \E td \in TransferDatas, n \in GeneratedNonces, m \in GeneratedNonces,
          t \in Instants \cup {now}, c \in BOOLEAN, k \in SignerKeys :
          GeneratorSign(td, n, m, t, c, k)
          /\ UNCHANGED <<redis, redisStore, nonceCache, pending, last, verified>>
          /\ UNCHANGED <<appVars, nmVars, statusVars, opsVars>>
    \/ CreateDeepLink /\ OnlySign
    \/ \E has \in SUBSET {"d", "s", "v"}, v \in {"1.0", "2.0"}, g \in BOOLEAN :
          ParseDeepLink(has, v, g) /\ OnlySign
    \/ \E d \in EncodeInputs : Encode(d) /\ OnlySign
    \/ \E t \in Instants : NothingSigned /\ Tick(t) /\ OnlySvc

SpecSign == InitSign /\ [][NextSign]_vars

\* The verification route and the nonce status route of one server: each
\* has its own connection to Redis, which either may have or lack
NotQueried ==
    /\ queried' = NoStatus /\ stats' = NoStats
    /\ UNCHANGED <<appVars, signVars, opsVars>>

\* The requests that differ from BaseRequest in their nonce at most
StatusIds ==
    {i \in RecordIds :
        /\ Requests[i] = [BaseRequest EXCEPT !.nonce = Requests[i].nonce]
        /\ Requests[i].nonce \in {"n1", "n40", "short", "n!"}}

StatusNonces == {Requests[i].nonce : i \in StatusIds}

InitStatus ==
    SvcInit(BOOLEAN) /\ NmInit(BOOLEAN) /\ AppInit({TRUE}) /\ RestInit

NextStatus ==
    \/ \E rid \in StatusIds, viaBatch \in BOOLEAN :
          /\ NoCallPending /\ VerifyStart(rid, viaBatch, FALSE)
          /\ NotQueried /\ UNCHANGED nmVars
    \/ \E c \in BagToSet(pending) :
          VerifyFinish(c, FALSE) /\ NotQueried /\ UNCHANGED nmVars
    \/ \E n \in StatusNonces, redisFails \in BOOLEAN : NonceStatus(n, redisFails)
    \/ \E keysFails \in BOOLEAN : Stats(keysFails)
    \/ \E t \in CoreInstants : Tick(t) /\ NotQueried /\ UNCHANGED nmVars
    \/ RedisError /\ NotQueried /\ UNCHANGED nmVars
    \/ NmRedisError /\ NotQueried /\ UNCHANGED svcVars

SpecStatus == InitStatus /\ [][NextStatus]_vars

\* The nonce status route beside the callers of NonceManager's
\* validateAndConsume, the hourly cleanup and the clock
NextInfo ==
    \/ \E n \in NmNonces, redisFails \in BOOLEAN :
          NmStart(n, redisFails) /\ NotQueried /\ UNCHANGED svcVars
    \/ \E s \in 1..MaxNmCalls, writeFails \in BOOLEAN :
          NmFinish(s, writeFails) /\ NotQueried /\ UNCHANGED svcVars
    \/ NmCleanup /\ NotQueried /\ UNCHANGED svcVars
    \/ NmRedisError /\ NotQueried /\ UNCHANGED svcVars
    \/ \E t \in Instants : Tick(t) /\ NotQueried /\ UNCHANGED nmVars
    \/ \E n \in NmNonces, redisFails \in BOOLEAN : NonceStatus(n, redisFails)

SpecInfo == InitNm /\ [][NextInfo]_vars

\* The batch-verify route serving one batch after the other, over a Redis
\* that can fail and be dropped
OnlyBatch == UNCHANGED <<appVars, nmVars, statusVars, signVars, locks, holds>>

NextBatch ==
    \/ \E items \in Batches : BatchArrive(items) /\ OnlyBatch
    \/ \E redisFails \in BOOLEAN : BatchCall(redisFails) /\ OnlyBatch
    \/ \E c \in BagToSet(pending), writeFails \in BOOLEAN :
          BatchResume(c, writeFails) /\ OnlyBatch
    \/ BatchRespond /\ OnlyBatch
    \/ \E t \in CoreInstants : Tick(t) /\ OnlySvc
    \/ RedisError /\ OnlySvc

SpecBatch == Init /\ [][NextBatch]_vars

\* The callers of CacheService's locks and the clock
LockInstants == {LOCK_TTL_MS - 1, LOCK_TTL_MS, 2 * LOCK_TTL_MS}

OnlyLocks ==
    UNCHANGED <<svcVars, appVars, nmVars, statusVars, signVars, batch>>

NextLocks ==
    \/ \E c \in Callers, r \in Resources : AcquireLock(c, r) /\ OnlyLocks
    \/ \E c \in Callers, r \in Resources : ReleaseLock(c, r) /\ OnlyLocks
    \/ \E t \in LockInstants :
          /\ Tick(t) /\ locks' = [locks EXCEPT !.op = NoOp]
          /\ UNCHANGED <<appVars, nmVars, statusVars, signVars, batch, holds>>

InitLocks == SvcInit({FALSE}) /\ NmInit({FALSE}) /\ AppInit({TRUE}) /\ RestInit

SpecLocks == InitLocks /\ [][NextLocks]_vars

\* The verify-signature route called sequentially with the requests on
\* nonce n1, over a Redis that can fail and be dropped
NextRoute ==
    \/ \E rid \in CoreIds, redisFails \in BOOLEAN :
          NoCallPending /\ VerifyStart(rid, FALSE, redisFails) /\ OnlySvc
    \/ \E c \in BagToSet(pending), writeFails \in BOOLEAN :
          VerifyFinish(c, writeFails) /\ OnlySvc
    \/ \E t \in Instants : NoCallPending /\ Tick(t) /\ OnlySvc
    \/ RedisError /\ OnlySvc

SpecRoute == Init /\ [][NextRoute]_vars

\* The health check among the calls of the verify-signature route
NextHealth ==
    \/ \E rid \in CoreIds, redisFails \in BOOLEAN :
          VerifyStart(rid, FALSE, redisFails) /\ OnlySvc
    \/ \E c \in BagToSet(pending), writeFails \in BOOLEAN :
          c.rid \notin ProbeIds /\ VerifyFinish(c, writeFails) /\ OnlySvc
    \/ \E redisFails \in BOOLEAN : HealthStart(redisFails) /\ OnlySvc
    \/ \E c \in BagToSet(pending), writeFails \in BOOLEAN :
          HealthFinish(c, writeFails) /\ OnlySvc
    \/ \E t \in CoreInstants : Tick(t) /\ OnlySvc
    \/ RedisError /\ OnlySvc

SpecHealth == Init /\ [][NextHealth]_vars

\* verifySignature called directly and sequentially with every request of
\* the model, over a Redis that can fail and be dropped
NextService ==
    \/ \E rid \in RecordIds, redisFails \in BOOLEAN :
          /\ NoCallPending /\ OnlyBaseVerified
          /\ ServiceStart(rid, redisFails) /\ OnlySvc
    \/ \E c \in BagToSet(pending), writeFails \in BOOLEAN :
          VerifyFinish(c, writeFails) /\ OnlySvc
    \/ \E t \in {BaseExpiry} : NoCallPending /\ Tick(t) /\ OnlySvc
    \/ RedisError /\ OnlySvc

SpecService == InitRecords /\ [][NextService]_vars

-----------------------------------------------------------------------------
(* Properties *)

\* The request of the verdict just returned
LastRequest == Requests[last.rid]

Returned == last.rid # 0

\* Request r passes every check of the route and of the service at time t,
\* the nonce lookup apart
PassesEveryCheck(r, t) ==
    /\ r.source = r.publicKey
    /\ validateInputs(r) = Ok
    /\ validateTimestamp(r, t) = Ok
    /\ NonceFormatOk(r.nonce)
    /\ validateDomain(r.domain) = Ok
    /\ verifyCryptographicSignature(r) = Ok
    /\ performSecurityChecks(r) = Ok

\* C1: of the concurrent verify calls for one record that passes every
\* check, no two return valid: a call never returns valid when another call
\* for the same record returned valid while it was suspended.
C1_OneValidAmongConcurrent ==
    (Returned /\ last.valid /\ PassesEveryCheck(LastRequest, now))
        => ~last.peerValid

\* C2: with calls one after the other and the store available, a call for a
\* record that passes every check returns valid if no call consumed its
\* nonce before, and returns invalid with the replay reason if a call for
\* the identical request returned valid before.
C2_LaterCallsAreReplays ==
    (Returned /\ PassesEveryCheck(LastRequest, now)) =>
        IF last.prior
        THEN ~last.valid /\ last.error = ErrReplay
        ELSE (\A i \in verified : Requests[i].nonce # LastRequest.nonce)
                => last.valid

C5_ValidImpliesSourceIsKey ==
    (Returned /\ last.valid) => LastRequest.source = LastRequest.publicKey

\* C6: of the concurrent validateAndConsume calls for one nonce at most one
\* returns success: a call never succeeds when another call for the same
\* nonce succeeded while it was suspended.
C6_OneSuccessAmongConcurrent ==
    nmLast.success => ~nmLast.peerSuccess

\* C7: the nonce of a request verified valid is in the store at every later
\* time at which the request's record still passes the time-window check.
C7_ConsumedWhileWindowOpen ==
    \A i \in verified :
        validateTimestamp(Requests[i], now) = Ok => NonceStored(Requests[i].nonce)

\* The check an error message belongs to; "format" is the nonce's format
KindOf(e) ==
    CASE e \in {ErrMissing, ErrRouteValidation} -> "shape"
      [] e = ErrNonceFormat -> "format"
      [] e \in {ErrFuture, ErrExpired, ErrWindow} -> "time"
      [] e = ErrReplay -> "nonce"
      [] e \in {ErrDomainFormat, ErrDomain} -> "domain"
      [] e = ErrCrypto -> "crypto"
      [] e \in {ErrAmount, ErrAddress, ErrSelf, ErrAmountInvalid, ErrSlippage}
            -> "business"
      [] e = ErrVersion -> "version"
      [] OTHER -> "none"

\* C8: a step that returns a rejection by the route or by the shape, nonce
\* format, version, time-window or domain check leaves redisStore and
\* nonceCache as they were.
C8_EarlyRejectionConsumesNothing ==
    [][(last'.rid # 0
          /\ (last'.viaRoute
                \/ KindOf(last'.error) \in
                      {"shape", "format", "version", "time", "domain"}))
        => UNCHANGED <<redisStore, nonceCache>>]_vars

\* A request on an unsupported domain is rejected while the store does not
\* hold its nonce
C8_DomainRejectedNonceFree ==
    /\ Returned /\ last.error = ErrDomain
    /\ ~NonceStored(LastRequest.nonce)

\* C9: whenever a call evaluated the cryptographic check, it had consumed
\* the request's nonce before.
C9_ClaimBeforeCrypto ==
    (Returned /\ last.cryptoChecked) => last.claimedAtCrypto

\* The checks request r fails on arrival at time t
FailingOnArrival(r, t) ==
    {k \in {"shape", "time", "format"} :
        \/ k = "shape" /\ validateInputs(r) # Ok
        \/ k = "time" /\ validateTimestamp(r, t) # Ok
        \/ k = "format" /\ ~NonceFormatOk(r.nonce)}

\* The checks request r fails after a lookup that answered `used`
FailingAfterLookup(r, used) ==
    {k \in {"nonce", "domain", "crypto", "business", "version"} :
        \/ k = "nonce" /\ used
        \/ k = "domain" /\ r.domain \notin SUPPORTED_DOMAINS
        \/ k = "crypto" /\ verifyCryptographicSignature(r) # Ok
        \/ k = "business" /\ performSecurityChecks([r EXCEPT !.version = "1.0"]) # Ok
        \/ k = "version" /\ ~Falsy(r.version) /\ r.version # "1.0"}

\* The checks the request of the verdict just returned fails: for a verdict
\* given on arrival all of them, the nonce counting as used if the store
\* holds it; for a verdict given after the lookup those that were still to
\* be made.
FailingChecks ==
    IF last.resumed
    THEN FailingAfterLookup(LastRequest, last.used)
    ELSE FailingOnArrival(LastRequest, now)
            \cup FailingAfterLookup(LastRequest, NonceStored(LastRequest.nonce))

\* The first element of order that is in set ks
FirstOf(order, ks) ==
    IF \E i \in 1..Len(order) : order[i] \in ks
    THEN order[CHOOSE i \in 1..Len(order) :
                  order[i] \in ks /\ \A j \in 1..(i - 1) : order[j] \notin ks]
    ELSE "none"

StatedOrder ==
    <<"shape", "format", "version", "time", "domain", "nonce", "crypto", "business">>

CodeOrder ==
    <<"shape", "time", "format", "nonce", "domain", "crypto", "business", "version">>

\* C10 as stated: the reason returned for a request that fails more than one
\* check is that of the earliest failing check in the order shape (the
\* nonce's format included), version, time window, domain, nonce,
\* cryptographic signature, business rules.
C10_ReasonInStatedOrder ==
    (Returned /\ ~last.viaRoute /\ Cardinality(FailingChecks) > 1)
        => KindOf(last.error) = FirstOf(StatedOrder, FailingChecks)

VerdictInCodeOrder ==
    (Returned /\ ~last.viaRoute /\ FailingChecks # {})
        => KindOf(last.error) = FirstOf(CodeOrder, FailingChecks)

\* C10: the reason returned for a request that fails a check is that of the
\* earliest failing check in the order shape, time window, nonce (format,
\* then replay), domain, cryptographic signature, business rules, version;
\* and a request that fails a check on arrival never reaches the lookup (no
\* call joins the suspended ones whose request fails one at that time).
C10_ReasonInCodeOrder ==
    /\ []VerdictInCodeOrder
    /\ [][BagCardinality(pending') > BagCardinality(pending)
            => \A c \in BagToSet(pending') :
                  CopiesIn(c, pending') > CopiesIn(c, pending)
                     => FailingOnArrival(Requests[c.rid], now) = {}]_vars

\* A replay from an unsupported domain is answered with the replay reason
C10_ReplayBeforeDomain ==
    /\ Returned /\ last.error = ErrReplay
    /\ LastRequest.domain \notin SUPPORTED_DOMAINS

-----------------------------------------------------------------------------
(* Properties of the verdict on one record *)

TimeChecked ==
    Returned /\ ~last.viaRoute /\ validateInputs(LastRequest) = Ok

\* Both times of the record are numbers the verifier reads as they are
HasTimes(r) == r.timestamp.form = "num" /\ r.expiry.form = "num"

C13_WindowAtMost24h ==
    (TimeChecked /\ HasTimes(LastRequest)) =>
        LET r == LastRequest
            window == r.expiry.n - r.timestamp.n
        IN  /\ window > maxValidityWindow
                  => (~last.valid /\ KindOf(last.error) = "time")
            /\ window = maxValidityWindow =>
                  /\ last.error # ErrWindow
                  /\ (r.timestamp.n <= now + maxClockSkew /\ now <= r.expiry.n)
                        => KindOf(last.error) # "time"

\* A record whose window is one millisecond too long is rejected for it
C13_OneMsTooLong ==
    /\ Returned /\ last.error = ErrWindow
    /\ HasTimes(LastRequest)
    /\ LastRequest.expiry.n - LastRequest.timestamp.n = maxValidityWindow + 1

\* The instant the timestamp of a record names lies after instant t
LiesAfter(v, t) == v.form = "exp" \/ (v.form = "num" /\ v.n > t)

\* C14: the time-window check rejects every record whose timestamp lies
\* more than the clock-skew tolerance (5 minutes) after the current time,
\* and does not reject on this ground a record whose timestamp lies at most
\* the tolerance ahead.
C14_FutureTimestampRejected ==
    TimeChecked =>
        LET r == LastRequest
        IN  /\ LiesAfter(r.timestamp, now + maxClockSkew) => ~last.valid
            /\ (r.timestamp.form = "num" /\ r.timestamp.n <= now + maxClockSkew)
                  => last.error # ErrFuture

\* C15: a record whose expiry is not after its timestamp is never verified
\* valid, whatever the current time.
C15_ExpiryAfterTimestamp ==
    (Returned /\ last.valid /\ HasTimes(LastRequest))
        => LastRequest.expiry.n > LastRequest.timestamp.n

\* The record transfers the native token: its token is 'SOL', or it has
\* none and createMessageToSign encodes the default 'SOL'
TransfersNative(r) == r.token = "SOL" \/ Falsy(r.token)

\* The amount of the record is a number, and which
AmountIsNumber(r) == r.amount.form \in {"num", "exp"}

\* C16: a record that transfers the native token (token 'SOL', or no token
\* and so encoded with the default 'SOL') with an amount above the ceiling
\* MAX_AMOUNT_SOL is never verified valid; an amount equal to the ceiling
\* is not rejected for its size.
C16_NativeAmountAtMostCeiling ==
    Returned =>
        LET r == LastRequest
            amount == parseFloat(r.amount)
        IN  /\ (TransfersNative(r) /\ ~amount.nan /\ amount.n > MAX_AMOUNT_SOL)
                  => ~last.valid
            /\ (~amount.nan /\ amount.n = MAX_AMOUNT_SOL)
                  => last.error # ErrAmount

\* C17: a valid verdict implies that the source of the record differs from
\* its destination, that its amount is a number greater than 0 and that its
\* maxSlippage is a number in the closed interval [0, 0.1].
C17_ValidMeetsBusinessRules ==
    (Returned /\ last.valid) =>
        LET r == LastRequest
        IN  /\ r.source # r.destination
            /\ AmountIsNumber(r) /\ parseFloat(r.amount).n > 0
            /\ r.maxSlippage.form = "num"
            /\ r.maxSlippage.n >= 0 /\ r.maxSlippage.n <= 100

\* C18: a valid verdict implies that the version of the record is '1.0'
\* (a record that carries no version is signed as '1.0'), and a record that
\* carries another version and reaches the version check is rejected with
\* the unsupported-version reason.
C18_ValidImpliesVersion ==
    Returned =>
        LET r == LastRequest
        IN  /\ last.valid => r.version \in {"1.0", Absent}
            /\ (/\ r.version \notin {"1.0", Absent}
                /\ last.resumed /\ ~last.used
                /\ validateDomain(r.domain) = Ok
                /\ verifyCryptographicSignature(r) = Ok
                /\ performSecurityChecks([r EXCEPT !.version = "1.0"]) = Ok)
                  => last.error = ErrVersion

\* const supportedTokens = ['SOL', 'USDC', 'USDT']
supportedTokens == {"SOL", "USDC", "USDT"}

\* C19: a record whose token is outside the supported set is never verified
\* valid (a record that carries no token is signed as 'SOL').
C19_ValidImpliesSupportedToken ==
    (Returned /\ last.valid)
        => LastRequest.token \in supportedTokens \cup {Absent}

\* C20: a request that lacks a required field, or whose nonce is shorter
\* than 32 or longer than 64 characters or holds a character outside the
\* URL-safe alphabet, is rejected as malformed on both entry points and is
\* never verified valid.
C20_MalformedRejected ==
    Returned =>
        LET r == LastRequest
        IN  (\/ r.shape # "ok"
             \/ NonceLength(r.nonce) \notin 32..64
             \/ ~NonceFormatOk(r.nonce))
                => (~last.valid /\ KindOf(last.error) \in {"shape", "format"})

\* The record leaves out token or maxSlippage
OmitsOptional(r) == r.token = Absent \/ r.maxSlippage = Undefined

\* The record with the defaults of createMessageToSign written out in the
\* fields it leaves out: token 'SOL', maxSlippage 0.01
WithDefaults(r) ==
    [r EXCEPT !.token = IF @ = Absent THEN "SOL" ELSE @,
              !.maxSlippage = IF @ = Undefined THEN Num(10) ELSE @]

\* The error verifySignature returns at time t for record r whose nonce
\* lookup answers `used`, the store writable (Ok: none, the verdict is valid)
ErrorFor(r, t, used) ==
    IF ChecksBeforeLookup(r, t) # Ok THEN ChecksBeforeLookup(r, t)
    ELSE RunSteps(StepsAfterLookup, r, used, FALSE, NoProgress).error

\* C23: a record that leaves out token or maxSlippage gets from
\* verifySignature the verdict that the record with the defaults written
\* out ('SOL', 0.01) gets from it in the same state: both valid, or both
\* rejected by the same check.
C23_OmittedLikeDefault ==
    (Returned /\ ~last.viaRoute /\ OmitsOptional(LastRequest)) =>
        last.error = ErrorFor(WithDefaults(LastRequest), now, last.used)

-----------------------------------------------------------------------------
(* Properties of the signing side *)

\* C21: the signature of every (signatureData, signature) pair a signing
\* operation returns was computed over the encoding of exactly the
\* signatureData returned, so the pair passes the cryptographic check of
\* the verifier under the signer's public key.
C21_ReturnedPairVerifies ==
    \A d \in signedPair.data :
        /\ signedPair.signature.message = securityUtilsCreateMessageToSign(d)
        /\ VerifiesUnder(d, signedPair.signature, signedPair.signature.key)

\* C22: the signer-side and the verifier-side createMessageToSign give every
\* record the same bytes, records with absent or falsy optional fields
\* included.
C22_EncodersAgree == encoded.signer = encoded.verifier

CanonicalOrder ==
    <<"nonce", "timestamp", "expiry", "domain", "version", "source",
      "destination", "amount", "token", "memo", "maxSlippage">>

InCanonicalOrder(message) ==
    /\ Len(message) = Len(CanonicalOrder)
    /\ \A i \in 1..Len(CanonicalOrder) : message[i][1] = CanonicalOrder[i]

C27_MalformedLinkRejected ==
    (/\ parsed # NoParsed
     /\ \/ ~({"d", "s", "v"} \subseteq parsed.url.has)
        \/ parsed.url.v # "1.0")
        => (~parsed.ok /\ parsed.error # "" /\ parsed.data = {})

\* A link without its signature is rejected for the missing parameter
C27_MissingSignatureRejected ==
    /\ parsed.url.has = {"d", "v"}
    /\ parsed.error = ErrLinkMissing

\* The value of field f of object o, undefined if o has no such property
Field(o, f) == IF f \in DOMAIN o THEN o[f] ELSE Absent

\* C28: for every signed pair createDeepLink gives a link, and
\* parseDeepLink of that link returns a signatureData field-for-field equal
\* to that of the pair, the signature of the pair, and version '1.0'.
C28_LinkRoundTrips ==
    /\ (signedPair.data # {} /\ link # NoLinkMade) => link.made
    /\ (parsed # NoParsed /\ parsed.url = link) =>
          /\ parsed.ok
          /\ \A a \in parsed.data, b \in signedPair.data :
                \A i \in 1..Len(CanonicalOrder) :
                    Field(a, CanonicalOrder[i]) = Field(b, CanonicalOrder[i])
          /\ parsed.signature = signedPair.signature
          /\ parsed.version = "1.0"

-----------------------------------------------------------------------------
(* Properties of the nonce status route *)

\* A verify call for nonce n has returned valid
Accepted(n) == \E i \in verified : Requests[i].nonce = n

\* C25: a status query for a nonce that no verify call has accepted
\* reports exists: false, and a status query for a nonce that a verify
\* call has accepted and that the service still holds as consumed is
\* answered with exists: true, whichever store each side uses.
C25_StatusFollowsVerification ==
    queried # NoStatus =>
        /\ ~Accepted(queried.nonce) => ~queried.exists
        /\ (Accepted(queried.nonce) /\ NonceStored(queried.nonce))
              => (queried.status = Success /\ queried.exists)

\* The error a verify call for request i would return if it ran now
VerdictNow(i) ==
    IF RouteChecks(Requests[i], FALSE) # Ok THEN RouteChecks(Requests[i], FALSE)
    ELSE ErrorFor(Requests[i], now, isNonceUsed(Requests[i].nonce, FALSE))

\* C26: a step that answers a status query leaves the clock, both
\* connections, the consumed nonces of both services and the suspended
\* calls as they are, and with them the verdict every verify call would get.
C26_StatusReadsOnly ==
    [][ queried' # NoStatus =>
          /\ UNCHANGED <<now, redis, redisStore, nonceCache, pending, verified>>
          /\ UNCHANGED <<nmRedis, nmRedisStore, nmLocalCache, nmCalls>>
          /\ \A i \in StatusIds : VerdictNow(i)' = VerdictNow(i) ]_vars

\* A status query found a consumed nonce
C26_QueriedConsumed ==
    /\ queried.status = Success /\ queried.exists
    /\ Accepted(queried.nonce)

-----------------------------------------------------------------------------
(* Properties of the responses and of the verdict object *)

\* What the verify-signature route answers to a replayed nonce, and to a
\* signature that does not verify
RejectedAs(e) ==
    verifySignatureResponse([NoVerdict EXCEPT !.error = e, !.resumed = TRUE])

\* C29: the response of the verify-signature route to a call that failed
\* because the nonce store could not be written differs, in its status or
\* in its code, from the response to a replayed nonce and from the
\* response to a bad signature.
C29_StoreFailureDistinguished ==
    (Returned /\ last.storeFailed /\ last.error = ErrConsume) =>
        /\ verifySignatureResponse(last) # RejectedAs(ErrReplay)
        /\ verifySignatureResponse(last) # RejectedAs(ErrCrypto)

C30_NullReturned ==
    Returned /\ LastRequest.shape = "null" /\ last.error = ErrDataFormat

-----------------------------------------------------------------------------
(* Properties of the stats route, the store switch, and the status info *)

\* C31: the storage the stats route reports is the store the
\* SignatureService gates verification with: 'redis' while it uses its
\* Redis connection, 'local_cache' while it uses its in-memory cache.
C31_StatsReportServiceStore ==
    stats.answered =>
        stats.storage = (IF redis THEN "redis" ELSE "local_cache")

\* C32: while the Redis key of a nonce consumed over Redis has not run
\* out, no call for a record with that nonce returns valid after the
\* service has switched to its in-memory cache (the call's own lookup
\* having been answered, not failed).
C32_SwitchKeepsConsumed ==
    (Returned /\ ~redis /\ ~last.storeFailed /\ RedisHas(LastRequest.nonce))
        => ~last.valid

\* C33: a response of the nonce status route with exists: true carries an
\* info record, not null.
C33_ExistsHasInfo ==
    (queried.status = Success /\ queried.exists) => queried.info

-----------------------------------------------------------------------------
(* Properties of the encoding as bytes *)

\* C34: the bytes createMessageToSign gives a record are the bytes of no
\* other record of the model, so a signature over them verifies for that
\* record alone.
C34_EncodingTellsRecordsApart ==
    \A d \in encoded.data : \A e \in EncodeInputs :
        e # d => /\ join(createMessageToSign(e)) # join(encoded.verifier)
                 /\ ~VerifiesUnder(e, sign(encoded.verifier, "A"), "A")

-----------------------------------------------------------------------------
(* Properties of batch-verify *)

\* C35: the batch loop has at most one verifySignature call in flight, the
\* one for the item it is at; result k carries index k (counted from 0)
\* and the verdict of the call made for item k; and the response carries
\* one result per item with successful + failed = total = the number of
\* items.
C35_BatchInOrder ==
    /\ Len(batch.results) <= Len(batch.items)
    /\ BagCardinality(pending) <= 1
    /\ batch.awaiting =>
          \A c \in BagToSet(pending) : c.rid = batch.items[BatchAt]
    /\ \A k \in DOMAIN batch.results :
          /\ batch.results[k].index = k - 1
          /\ batch.results[k].rid = batch.items[k]
          /\ batch.results[k].success => batch.items[k] \in verified
    /\ batch.state = "answered" =>
          /\ Len(batch.results) = Len(batch.items)
          /\ batch.summary.total = Len(batch.items)
          /\ batch.summary.successful + batch.summary.failed
                = batch.summary.total

\* A batch of two items was answered, its first item verified and its
\* second rejected
C35_MixedBatchAnswered ==
    /\ batch.state = "answered" /\ Len(batch.items) = MaxBatch
    /\ batch.results[1].success /\ ~batch.results[MaxBatch].success

-----------------------------------------------------------------------------
(* Properties of CacheService's locks *)

\* Caller c has acquired the lock of r, has not released it, and its TTL
\* has not run out
HoldsLock(c, r) == holds[c][r] # NoLock /\ now < holds[c][r].expires

\* C38: no two callers hold the lock of one resource at a time, and while
\* a caller holds a lock the key carries that caller's lockValue: no
\* release by another caller, with whatever lockValue, has deleted it.
C38_OneHolderKeepsLock ==
    \A r \in Resources : \A c \in Callers :
        HoldsLock(c, r) =>
            /\ \A d \in Callers : HoldsLock(d, r) => d = c
            /\ LockSet(locks.keys, r)
            /\ locks.keys[r].value = holds[c][r].value

\* A caller whose lock had run out and had been acquired by another caller
\* called releaseLock, which returned false
C38_StaleReleaseRefused ==
    /\ locks.op.kind = "release" /\ ~locks.op.result
    /\ \E d \in Callers :
          d # locks.op.caller /\ HoldsLock(d, locks.op.resource)

-----------------------------------------------------------------------------
(* Properties of the health check *)

\* C36: a step in which the health check's probe gets its verdict gives a
\* verdict that is not valid and leaves the consumed-nonce store, in Redis
\* and in memory, as it was; the probe's signature does not verify either,
\* so the verdict does not rest on the list of supported domains alone.
C36_ProbeLeavesStore ==
    [][last'.rid \in ProbeIds =>
          /\ ~last'.valid
          /\ verifyCryptographicSignature(Requests[last'.rid]) = ErrCrypto
          /\ UNCHANGED <<redisStore, nonceCache, verified>>]_vars

\* A probe got its verdict after the nonce lookup while the store held a
\* consumed nonce, and the probe's own nonce is not in it
C36_ProbeAnsweredOverStore ==
    /\ Returned /\ last.rid \in ProbeIds /\ last.resumed
    /\ last.error = ErrDomain
    /\ \E n \in Nonces : NonceStored(n)
    /\ ~NonceStored(LastRequest.nonce)

=============================================================================
